---- MODULE Spec2Model ----
\* Model of the gaws request senders: AWSRequest.Do (with the Kinesis retry
\* predicate), SendAWSRequest(req, retry) and the predicate-less
\* SendAWSRequest(req).  One call of a sender is followed from its first
\* loop test to its return (or panic); the remote server and the HTTP
\* client are the environment and answer each attempt nondeterministically.
\* Further specifications over the same variables follow the sender of
\* common.go (RespSpec), a write of MaxTries during a call (SharedSpec), the
\* Kinesis client operations around Do (ClientSpec), the StreamRecords
\* goroutine with its reader (StreamSpec) and ServiceForRegion (LookupSpec).
EXTENDS Integers, Sequences, FiniteSets, TLC

\* ---------------------------------------------------------------- bounds
\* Largest value of the mutable global MaxTries explored (the default is 5).
MaxTriesBound == 5

\* ------------------------------------------------------------ byte bodies
\* A body is described by the JSON text it holds: k is the top-level shape
\* ("nil" for a nil slice, "invalid" for bytes that are not JSON, "null",
\* "object"), text the raw bytes of a non-JSON body, members the object's
\* members in order.  A member value is a string (vk = "str") or a number
\* (vk = "num").
Member(key, vk, s) == [key |-> key, vk |-> vk, s |-> s]

NilBody == [k |-> "nil", text |-> "", members |-> << >>]

EmptyBody == [k |-> "invalid", text |-> "", members |-> << >>]

Raw(text) == [k |-> "invalid", text |-> text, members |-> << >>]

NullBody == [k |-> "null", text |-> "", members |-> << >>]

Object(members) == [k |-> "object", text |-> "", members |-> members]

\* json.Marshal of an error document {__type, message}.
Doc(type, message) ==
    Object(<< Member("__type", "str", type), Member("message", "str", message) >>)

ExceededType == "GawsExceededMaxRetries"

ExceededMessage == "The maximum number of retries for this request was exceeded."

Bodies ==
    { Raw("OK"),
      Raw("I am not JSON!"),
      NullBody,
      Doc("NotFound", "Could not find something"),
      Doc("Throttling", "You have been throttled"),
      Doc("ProvisionedThroughputExceededException", "bar"),
      Doc(ExceededType, ExceededMessage),
      Object(<< Member("__TYPE", "str", "Throttling") >>),
      Object(<< Member("__type", "num", "") >>) }

Statuses == {200, 399, 400, 499, 500, 501}

\* ---------------------------------------------------------------- errors
\* An error value: kind is its dynamic type ("nil" for a nil error).
Err(kind, type, message) == [kind |-> kind, Type |-> type, Message |-> message]

NilErr == Err("nil", "", "")

TransportErr == Err("transport", "", "dial tcp: connection refused")

ReadErr == Err("read", "", "unexpected EOF")

JsonSyntaxErr == Err("json", "", "invalid character looking for beginning of value")

JsonTypeErr == Err("json", "", "json: cannot unmarshal number into Go value of type string")

DocKinds == {"gawsError", "AWSError", "kinesisError"}

\* fmt.Sprintf("%v: %v", e.Type, e.Message) for the error documents.
ErrorText(e) ==
    IF e.kind \in DocKinds THEN e.Type \o ": " \o e.Message ELSE e.Message

\* ------------------------------------------------------- json.Unmarshal
\* Key folding used by encoding/json to match a member to a struct field
\* (exact name first, otherwise case-insensitively).
FoldKey(key) ==
    CASE key = "__TYPE" -> "__type"
      [] key = "MESSAGE" -> "message"
      [] OTHER -> key

RECURSIVE DecodeMembers(_, _)
\* Walks the members of an object; acc = [Type, Message, err].
DecodeMembers(members, acc) ==
    IF members = << >> THEN acc
    ELSE LET m == Head(members)
             f == FoldKey(m.key)
             next ==
               IF f = "__type"
               THEN IF m.vk = "str" THEN [acc EXCEPT !.Type = m.s]
                    ELSE [acc EXCEPT !.err = IF acc.err = NilErr THEN JsonTypeErr ELSE acc.err]
               ELSE IF f = "message"
               THEN IF m.vk = "str" THEN [acc EXCEPT !.Message = m.s]
                    ELSE [acc EXCEPT !.err = IF acc.err = NilErr THEN JsonTypeErr ELSE acc.err]
               ELSE acc
         IN DecodeMembers(Tail(members), next)

\* json.Unmarshal(body, &doc) into a zero {Type, Message} struct.
Unmarshal(body) ==
    LET zero == [Type |-> "", Message |-> "", err |-> NilErr]
    IN CASE body.k = "object" -> DecodeMembers(body.members, zero)
         [] body.k = "null" -> zero
         [] OTHER -> [zero EXCEPT !.err = JsonSyntaxErr]

\* ------------------------------------------------------ retry predicates
\* Variants of the predicate with one plausible slip each, used to show that
\* the checked properties depend on the predicate.
\* Slip: success threshold 300 instead of 400.
kinesisRetryPredicate_Below300(status, body) ==
    IF status < 300 THEN [retry |-> FALSE, err |-> NilErr]
    ELSE LET d == Unmarshal(body)
             error == Err("kinesisError", d.Type, d.Message)
         IN IF d.err # NilErr THEN [retry |-> FALSE, err |-> d.err]
            ELSE IF status >= 500 THEN [retry |-> TRUE, err |-> error]
            ELSE IF d.Type = "Throttling" THEN [retry |-> TRUE, err |-> error]
            ELSE IF d.Type = "ProvisionedThroughputExceededException"
                 THEN [retry |-> TRUE, err |-> error]
            ELSE [retry |-> FALSE, err |-> error]

\* Slip: every decoded error is retried, whatever its type.
kinesisRetryPredicate_RetryAll(status, body) ==
    IF status < 400 THEN [retry |-> FALSE, err |-> NilErr]
    ELSE LET d == Unmarshal(body)
             error == Err("kinesisError", d.Type, d.Message)
         IN IF d.err # NilErr THEN [retry |-> FALSE, err |-> d.err]
            ELSE [retry |-> TRUE, err |-> error]

\* Slip: status > 500 instead of status >= 500.
kinesisRetryPredicate_Above500(status, body) ==
    IF status < 400 THEN [retry |-> FALSE, err |-> NilErr]
    ELSE LET d == Unmarshal(body)
             error == Err("kinesisError", d.Type, d.Message)
         IN IF d.err # NilErr THEN [retry |-> FALSE, err |-> d.err]
            ELSE IF status > 500 THEN [retry |-> TRUE, err |-> error]
            ELSE IF d.Type = "Throttling" THEN [retry |-> TRUE, err |-> error]
            ELSE IF d.Type = "ProvisionedThroughputExceededException"
                 THEN [retry |-> TRUE, err |-> error]
            ELSE [retry |-> FALSE, err |-> error]

\* Slip: the ProvisionedThroughputExceededException test is missing.
kinesisRetryPredicate_NoProvisioned(status, body) ==
    IF status < 400 THEN [retry |-> FALSE, err |-> NilErr]
    ELSE LET d == Unmarshal(body)
             error == Err("kinesisError", d.Type, d.Message)
         IN IF d.err # NilErr THEN [retry |-> FALSE, err |-> d.err]
            ELSE IF status >= 500 THEN [retry |-> TRUE, err |-> error]
            ELSE IF d.Type = "Throttling" THEN [retry |-> TRUE, err |-> error]
            ELSE [retry |-> FALSE, err |-> error]

\* Slip: the status >= 500 test comes before the parse check.
kinesisRetryPredicate_StatusFirst(status, body) ==
    IF status < 400 THEN [retry |-> FALSE, err |-> NilErr]
    ELSE LET d == Unmarshal(body)
             error == Err("kinesisError", d.Type, d.Message)
         IN IF status >= 500 THEN [retry |-> TRUE, err |-> error]
            ELSE IF d.err # NilErr THEN [retry |-> FALSE, err |-> d.err]
            ELSE IF d.Type = "Throttling" THEN [retry |-> TRUE, err |-> error]
            ELSE IF d.Type = "ProvisionedThroughputExceededException"
                 THEN [retry |-> TRUE, err |-> error]
            ELSE [retry |-> FALSE, err |-> error]

\* Slip: a retry decision carries no error.
kinesisRetryPredicate_NilOnRetry(status, body) ==
    IF status < 400 THEN [retry |-> FALSE, err |-> NilErr]
    ELSE LET d == Unmarshal(body)
             error == Err("kinesisError", d.Type, d.Message)
         IN IF d.err # NilErr THEN [retry |-> FALSE, err |-> d.err]
            ELSE IF status >= 500 THEN [retry |-> TRUE, err |-> NilErr]
            ELSE IF d.Type = "Throttling" THEN [retry |-> TRUE, err |-> NilErr]
            ELSE IF d.Type = "ProvisionedThroughputExceededException"
                 THEN [retry |-> TRUE, err |-> NilErr]
            ELSE [retry |-> FALSE, err |-> error]

\* kinesisRetryPredicate(status, body) -> (shouldRetry, err)
kinesisRetryPredicate(status, body) ==
    IF status < 400 THEN [retry |-> FALSE, err |-> NilErr]
    ELSE LET d == Unmarshal(body)
             error == Err("kinesisError", d.Type, d.Message)
         IN IF d.err # NilErr THEN [retry |-> FALSE, err |-> d.err]
            ELSE IF status >= 500 THEN [retry |-> TRUE, err |-> error]
            ELSE IF d.Type = "Throttling" THEN [retry |-> TRUE, err |-> error]
            ELSE IF d.Type = "ProvisionedThroughputExceededException"
                 THEN [retry |-> TRUE, err |-> error]
            ELSE [retry |-> FALSE, err |-> error]

\* The classification written inline in the predicate-less SendAWSRequest.
inlineClassify(status, body) ==
    IF status < 400 THEN [retry |-> FALSE, err |-> NilErr]
    ELSE LET d == Unmarshal(body)
             error == Err("AWSError", d.Type, d.Message)
         IN IF d.err # NilErr THEN [retry |-> FALSE, err |-> d.err]
            ELSE IF d.Type # "Throttling" /\ status <= 500
                 THEN [retry |-> FALSE, err |-> error]
            ELSE [retry |-> TRUE, err |-> error]

\* The sentinel returned on exhaustion, per package version.
exceededRetriesError(v) ==
    IF v \in {"SendAWSRequest", "SendAWSRequestResponse"}
    THEN Err("AWSError", ExceededType, ExceededMessage)
    ELSE Err("gawsError", ExceededType, ExceededMessage)

\* 100 * 2^try, in milliseconds.
RECURSIVE Pow2(_)
Pow2(n) == IF n <= 0 THEN 1 ELSE 2 * Pow2(n - 1)

\* Slip: the exponent starts at 0 (100 ms for the first sleep).
sleepDuration_FromZero(t) == 100 * Pow2(t - 1)

sleepDuration(t) == 100 * Pow2(t)

\* ----------------------------------------------------------------- state
Variants == {"Do", "SendAWSRequestRetry", "SendAWSRequest"}

\* The sender of common.go, which returns the *http.Response itself.
ResponseVariant == "SendAWSRequestResponse"

VARIABLES
    variant,    \* which sender this call runs
    MaxTries,   \* the package-level retry ceiling
    pc,         \* "loop" | "sleep" | "done" | "panic"
    try,        \* the loop variable
    lastBody,   \* the local lastBody
    result,     \* the returned (body, err) once pc = "done"
    attempts,   \* client.Do calls made by this call
    outcome,    \* what the latest client.Do / ReadAll produced
    uniform,    \* every attempt so far produced the same outcome
    slept,      \* the sleeps taken, in milliseconds, in order
    verdict,    \* the locals shouldRetry, err of the latest predicate call
    bodyReader, \* "bytes": the request has a body read from a bytes reader; "none"
    transmitted,    \* per attempt, the request body handed to the transport
    entryMaxTries,  \* the value MaxTries had when the call was entered
    \* a Kinesis client operation around one AWSRequest.Do call
    op,         \* the operation, "none" when the sender is called directly
    urlOK,      \* the service Endpoint parses as a URL
    clientPc,   \* "idle" | "called" | "returned"
    opResult,   \* what the operation returned: (value, err)
    \* StreamRecords: the producer goroutine, its channels and their reader
    sPc,        \* "idle" | "fetch" | "sendRecord" | "sendError" | "exited"
    shardIterator,  \* the captured shardIterator
    pending,    \* records of the current batch not yet sent on c
    sErr,       \* the err of the failing GetRecords
    fetches,    \* GetRecords calls made
    fetched,    \* every record of every successful batch, in order
    received,   \* what the reader received from c, in order
    errReceived,    \* what the reader received from errc, in order
    consumer,   \* "receiving" | "gone"
    startIterator,  \* the shardIterator argument of StreamRecords
    used,       \* the iterator passed to each GetRecords call, in order
    nexts,      \* the newiterator of each successful GetRecords, in order
    \* calls of ServiceForRegion
    svcRegion,  \* the region of the latest call
    svcName,    \* the serviceName of the latest call
    svcResult,  \* what the latest call returned: (service, err)
    lookups     \* calls made

senderVars ==
    << variant, MaxTries, pc, try, lastBody, result, attempts, outcome, uniform,
       slept, verdict, bodyReader, transmitted >>

clientVars == << op, urlOK, clientPc, opResult >>

\* The record of the iterators StreamRecords used and was given.
cursorLog == << startIterator, used, nexts >>

streamVars ==
    << sPc, shardIterator, pending, sErr, fetches, fetched, received,
       errReceived, consumer, cursorLog >>

lookupVars == << svcRegion, svcName, svcResult, lookups >>

\* Everything a step of a sender leaves alone.
otherVars == << entryMaxTries, clientVars, streamVars, lookupVars >>

vars == << senderVars, otherVars >>

NoResult == [body |-> NilBody, err |-> NilErr]

\* What one attempt can produce: no response at all, a response whose body
\* cannot be read to the end, or a complete response.
Outcomes ==
    { [net |-> "transport", status |-> 0, body |-> NilBody] }
    \cup { [net |-> "readerr", status |-> s, body |-> EmptyBody] : s \in {200, 500} }
    \cup { [net |-> "ok", status |-> s, body |-> b] : s \in Statuses, b \in Bodies }

NoOutcome == [net |-> "none", status |-> 0, body |-> NilBody]

NoVerdict == [retry |-> FALSE, err |-> NilErr]

NoOpResult == [value |-> << >>, err |-> NilErr]

\* No client operation is in progress.
ClientIdle ==
    /\ op = "none"
    /\ urlOK = TRUE
    /\ clientPc = "idle"
    /\ opResult = NoOpResult

\* No StreamRecords goroutine exists.
StreamIdle ==
    /\ sPc = "idle"
    /\ shardIterator = 0
    /\ pending = << >>
    /\ sErr = NilErr
    /\ fetches = 0
    /\ fetched = << >>
    /\ received = << >>
    /\ errReceived = << >>
    /\ consumer = "receiving"
    /\ startIterator = 0
    /\ used = << >>
    /\ nexts = << >>

NoLookup == [service |-> [Endpoint |-> ""], err |-> NilErr]

\* ServiceForRegion has not been called.
LookupIdle ==
    /\ svcRegion = ""
    /\ svcName = ""
    /\ svcResult = NoLookup
    /\ lookups = 0

\* Entry of one sender call.
SenderEntry ==
    /\ MaxTries \in 0..MaxTriesBound
    /\ entryMaxTries = MaxTries
    /\ pc = "loop"
    /\ try = 1
    /\ lastBody = NilBody
    /\ result = NoResult
    /\ attempts = 0
    /\ outcome = NoOutcome
    /\ uniform = TRUE
    /\ slept = << >>
    /\ verdict = NoVerdict
    /\ bodyReader \in {"none", "bytes"}
    /\ transmitted = << >>

Init ==
    /\ variant \in Variants
    /\ SenderEntry
    /\ ClientIdle
    /\ StreamIdle
    /\ LookupIdle

\* The body the transport is handed on an attempt of sender v that follows
\* made earlier attempts.  Do builds a new request, with a new reader over
\* r.Body, for every attempt.  The SendAWSRequest senders pass the caller's
\* one *http.Request to client.Do every time: its Body is a reader that the
\* first attempt has read to the end.
WireBody(v, reader, made) ==
    IF v = "Do" THEN "complete"
    ELSE IF reader = "bytes" /\ made >= 1 THEN "consumed"
    ELSE "complete"

\* Bookkeeping common to every attempt.
Observe(o) ==
    /\ attempts' = attempts + 1
    /\ transmitted' = Append(transmitted, WireBody(variant, bodyReader, attempts))
    /\ outcome' = o
    /\ uniform' = (uniform /\ (attempts = 0 \/ outcome = o))

Return(body, err) ==
    /\ pc' = "done"
    /\ result' = [body |-> body, err |-> err]

\* Slip: lastBody is set by the first retryable response only.
AfterResponse_KeepFirstBody(o, decision) ==
    IF o.net = "readerr"
    THEN Return(o.body, ReadErr) /\ UNCHANGED << lastBody, verdict >>
    ELSE /\ verdict' = decision
         /\ IF decision.retry
            THEN /\ lastBody' = (IF lastBody = NilBody THEN o.body ELSE lastBody)
                 /\ pc' = "sleep"
                 /\ UNCHANGED result
            ELSE Return(o.body, decision.err) /\ UNCHANGED lastBody

\* Slip: a non-retried response is returned with the body of the last
\* retried one, when there is one.
AfterResponse_ReturnLastBody(o, decision) ==
    IF o.net = "readerr"
    THEN Return(o.body, ReadErr) /\ UNCHANGED << lastBody, verdict >>
    ELSE /\ verdict' = decision
         /\ IF decision.retry
            THEN /\ lastBody' = o.body
                 /\ pc' = "sleep"
                 /\ UNCHANGED result
            ELSE /\ Return(IF lastBody # NilBody THEN lastBody ELSE o.body, decision.err)
                 /\ UNCHANGED lastBody

\* The part of the loop body after a response was obtained: ReadAll, the
\* retry decision, and either a return or lastBody = body before the sleep.
AfterResponse(o, decision) ==
    IF o.net = "readerr"
    THEN Return(o.body, ReadErr) /\ UNCHANGED << lastBody, verdict >>
    ELSE /\ verdict' = decision
         /\ IF decision.retry
            THEN /\ lastBody' = o.body
                 /\ pc' = "sleep"
                 /\ UNCHANGED result
            ELSE Return(o.body, decision.err) /\ UNCHANGED lastBody

\* Slip: the loop runs while try <= MaxTries.
DoAttempt_Inclusive(o) ==
    /\ variant = "Do"
    /\ pc = "loop"
    /\ try <= MaxTries
    /\ Observe(o)
    /\ IF o.net = "transport"
       THEN Return(EmptyBody, TransportErr) /\ UNCHANGED << lastBody, verdict >>
       ELSE AfterResponse(o, kinesisRetryPredicate(o.status, o.body))
    /\ UNCHANGED << variant, MaxTries, try, slept, bodyReader >>
    /\ UNCHANGED otherVars

\* Slip: the next request is sent while the backoff sleep is still running.
DoAttempt_DuringSleep(o) ==
    /\ variant = "Do"
    /\ pc \in {"loop", "sleep"}
    /\ try < MaxTries
    /\ Observe(o)
    /\ IF o.net = "transport"
       THEN Return(EmptyBody, TransportErr) /\ UNCHANGED << lastBody, verdict >>
       ELSE AfterResponse(o, kinesisRetryPredicate(o.status, o.body))
    /\ UNCHANGED << variant, MaxTries, try, slept, bodyReader >>
    /\ UNCHANGED otherVars

\* One iteration of AWSRequest.Do up to the sleep.
DoAttempt(o) ==
    /\ variant = "Do"
    /\ pc = "loop"
    /\ try < MaxTries
    /\ Observe(o)
    /\ IF o.net = "transport"
       THEN Return(EmptyBody, TransportErr) /\ UNCHANGED << lastBody, verdict >>
       ELSE AfterResponse(o, kinesisRetryPredicate(o.status, o.body))
    /\ UNCHANGED << variant, MaxTries, try, slept, bodyReader >>
    /\ UNCHANGED otherVars

\* One iteration of SendAWSRequest(req, retry): the deferred
\* resp.Body.Close() is evaluated before err is tested, so a nil resp
\* panics.
SendRetryAttempt(o) ==
    /\ variant = "SendAWSRequestRetry"
    /\ pc = "loop"
    /\ try < MaxTries
    /\ Observe(o)
    /\ IF o.net = "transport"
       THEN pc' = "panic" /\ UNCHANGED << result, lastBody, verdict >>
       ELSE AfterResponse(o, kinesisRetryPredicate(o.status, o.body))
    /\ UNCHANGED << variant, MaxTries, try, slept, bodyReader >>
    /\ UNCHANGED otherVars

\* One iteration of the predicate-less SendAWSRequest(req).
SendAttempt(o) ==
    /\ variant = "SendAWSRequest"
    /\ pc = "loop"
    /\ try < MaxTries
    /\ Observe(o)
    /\ IF o.net = "transport"
       THEN pc' = "panic" /\ UNCHANGED << result, lastBody, verdict >>
       ELSE AfterResponse(o, inlineClassify(o.status, o.body))
    /\ UNCHANGED << variant, MaxTries, try, slept, bodyReader >>
    /\ UNCHANGED otherVars

\* Slip: the loop has no try++.
BackoffSleep_NoIncrement ==
    /\ pc = "sleep"
    /\ slept' = Append(slept, sleepDuration(try))
    /\ try' = try
    /\ pc' = "loop"
    /\ UNCHANGED << variant, MaxTries, lastBody, result, attempts, outcome, uniform >>
    /\ UNCHANGED << verdict, bodyReader, transmitted, otherVars >>

\* time.Sleep(sleepDuration * time.Millisecond); try++
BackoffSleep ==
    /\ pc = "sleep"
    /\ slept' = Append(slept, sleepDuration(try))
    /\ try' = try + 1
    /\ pc' = "loop"
    /\ UNCHANGED << variant, MaxTries, lastBody, result, attempts, outcome, uniform >>
    /\ UNCHANGED << verdict, bodyReader, transmitted, otherVars >>

\* Slip: an empty, non-nil slice is returned when no body was kept.
Exhausted_EmptyBody ==
    /\ pc = "loop"
    /\ ~(try < MaxTries)
    /\ Return(IF lastBody = NilBody THEN EmptyBody ELSE lastBody,
              exceededRetriesError(variant))
    /\ UNCHANGED << variant, MaxTries, try, lastBody, attempts, outcome, uniform, slept >>
    /\ UNCHANGED << verdict, bodyReader, transmitted, otherVars >>

\* The loop condition fails: return lastBody, exceededRetriesError.
Exhausted ==
    /\ pc = "loop"
    /\ ~(try < MaxTries)
    /\ Return(lastBody, exceededRetriesError(variant))
    /\ UNCHANGED << variant, MaxTries, try, lastBody, attempts, outcome, uniform, slept >>
    /\ UNCHANGED << verdict, bodyReader, transmitted, otherVars >>

Next ==
    \/ \E o \in Outcomes : DoAttempt(o)
    \/ \E o \in Outcomes : SendRetryAttempt(o)
    \/ \E o \in Outcomes : SendAttempt(o)
    \/ BackoffSleep
    \/ Exhausted

Spec == Init /\ [][Next]_vars

\* The call keeps running: every network call returns and every sleep ends.
FairSpec == Spec /\ WF_vars(Next)

\* ------------------------------------- MaxTries written during a call
\* MaxTries is an exported package variable: code running concurrently with
\* a call may assign it, and the call reads it at every loop test.  The
\* write is taken while the call is in a backoff sleep.
SetMaxTries(n) ==
    /\ pc = "sleep"
    /\ n # MaxTries
    /\ MaxTries' = n
    /\ UNCHANGED << variant, pc, try, lastBody, result, attempts, outcome, uniform,
                    slept, verdict, bodyReader, transmitted >>
    /\ UNCHANGED otherVars

SharedNext ==
    \/ \E o \in Outcomes : DoAttempt(o)
    \/ \E o \in Outcomes : SendRetryAttempt(o)
    \/ \E o \in Outcomes : SendAttempt(o)
    \/ BackoffSleep
    \/ Exhausted
    \/ \E n \in 0..MaxTriesBound : SetMaxTries(n)

SharedSpec == Init /\ [][SharedNext]_vars

\* ------------------------------------------- the sender of common.go
\* return resp, err
ReturnResponse(status, err) ==
    /\ pc' = "done"
    /\ result' = [resp |-> [status |-> status], err |-> err]

\* One iteration of SendAWSRequest(req) (*http.Response, error).  The body
\* is read only for status >= 400, into a buffer whose read error is
\* dropped, so a truncated body is classified by what was read.
RespAttempt(o) ==
    /\ variant = ResponseVariant
    /\ pc = "loop"
    /\ try < MaxTries
    /\ Observe(o)
    /\ IF o.net = "transport"
       THEN pc' = "panic" /\ UNCHANGED << result, verdict >>
       ELSE LET d == inlineClassify(o.status, o.body)
            IN /\ verdict' = d
               /\ IF d.retry
                  THEN pc' = "sleep" /\ UNCHANGED result
                  ELSE ReturnResponse(o.status, d.err)
    /\ UNCHANGED << variant, MaxTries, try, slept, lastBody, bodyReader >>
    /\ UNCHANGED otherVars

\* The loop condition fails: return &http.Response{}, AWSError{...}.
RespExhausted ==
    /\ variant = ResponseVariant
    /\ pc = "loop"
    /\ ~(try < MaxTries)
    /\ ReturnResponse(0, exceededRetriesError(variant))
    /\ UNCHANGED << variant, MaxTries, try, lastBody, attempts, outcome, uniform, slept >>
    /\ UNCHANGED << verdict, bodyReader, transmitted, otherVars >>

RespInit ==
    /\ variant = ResponseVariant
    /\ SenderEntry
    /\ ClientIdle
    /\ StreamIdle
    /\ LookupIdle

RespNext ==
    \/ \E o \in Outcomes : RespAttempt(o)
    \/ BackoffSleep
    \/ RespExhausted

RespSpec == RespInit /\ [][RespNext]_vars

\* ------------------------------------------ Kinesis client operations
\* Each operation builds an AWSRequest, calls Do and turns the returned
\* (body, err) into its own return values.
Ops ==
    { "CreateStream", "ListStreams", "GetRecords", "PutRecord", "Delete",
      "Describe", "MergeShards", "SplitShard", "GetShardIterator" }

\* The operations that return Do's err as it is (CreateStream with the Stream).
ErrOnlyOps == { "CreateStream", "PutRecord", "Delete", "MergeShards", "SplitShard" }

\* The fields of the result struct operation o decodes into.
ResultFields(o) ==
    CASE o = "ListStreams" -> {"HasMoreStreams", "StreamNames"}
      [] o = "GetRecords" -> {"NextShardIterator", "Records"}
      [] o = "Describe" -> {"StreamDescription"}
      [] o = "GetShardIterator" -> {"ShardIterator"}
      [] OTHER -> {}

\* The JSON kind each field accepts: a string, a bool, an array ("arr") or
\* an object ("obj").
FieldKind(key) ==
    CASE key \in {"NextShardIterator", "ShardIterator"} -> "str"
      [] key = "HasMoreStreams" -> "bool"
      [] key \in {"StreamNames", "Records"} -> "arr"
      [] OTHER -> "obj"

\* Bodies of successful answers: a GetRecords result, a GetRecords result
\* whose Records is a number, a GetShardIterator result, a ListStreams
\* result and a DescribeStream result.
ResultBodies ==
    { Object(<< Member("NextShardIterator", "str", "next"),
                Member("Records", "arr", "r1") >>),
      Object(<< Member("NextShardIterator", "str", "next"),
                Member("Records", "num", "5") >>),
      Object(<< Member("ShardIterator", "str", "AAAA") >>),
      Object(<< Member("HasMoreStreams", "bool", "false"),
                Member("StreamNames", "arr", "s1") >>),
      Object(<< Member("StreamDescription", "obj", "d1") >>) }

\* What an attempt of an operation can produce: the answers of Outcomes and
\* the successful answers carrying a result.
ClientOutcomes ==
    Outcomes \cup { [net |-> "ok", status |-> 200, body |-> b] : b \in ResultBodies }

\* json.Unmarshal(body, &result) of a successful body into the zero result
\* struct of operation o.  Input that is not valid JSON is rejected before
\* anything is stored.  In an object, a member naming a field is stored
\* when its value has the field's kind; a value of another kind is skipped,
\* the decoding goes on, and the type error is returned at the end.  Every
\* other member is ignored.
DecodeResult(o, body) ==
    CASE body.k = "object" ->
           [value |-> SelectSeq(body.members,
                                LAMBDA m : /\ m.key \in ResultFields(o)
                                           /\ m.vk = FieldKind(m.key)),
            err |-> IF \E i \in 1..Len(body.members) :
                          /\ body.members[i].key \in ResultFields(o)
                          /\ body.members[i].vk # FieldKind(body.members[i].key)
                    THEN JsonTypeErr ELSE NilErr]
      [] body.k = "null" -> [value |-> << >>, err |-> NilErr]
      [] OTHER -> [value |-> << >>, err |-> JsonSyntaxErr]

\* The part of the decoded struct operation o hands back: ListStreams
\* builds its streams from StreamNames alone.
Returned(o, value) ==
    IF o = "ListStreams" THEN SelectSeq(value, LAMBDA m : m.key = "StreamNames")
    ELSE value

\* Slip: the err of Do is not tested before the body is decoded, so the
\* decoding's err replaces it.
OpOutcome_DecodeOverwrites(o, r) ==
    IF o = "CreateStream"
    THEN [value |-> << Member("Stream", "str", "name") >>, err |-> r.err]
    ELSE IF o \in ErrOnlyOps THEN [value |-> << >>, err |-> r.err]
    ELSE DecodeResult(o, r.body)

\* What operation o returns when Do returned r = (body, err).
OpOutcome(o, r) ==
    IF o = "CreateStream"
    THEN [value |-> << Member("Stream", "str", "name") >>, err |-> r.err]
    ELSE IF o \in ErrOnlyOps THEN [value |-> << >>, err |-> r.err]
    ELSE IF r.err # NilErr THEN [value |-> << >>, err |-> r.err]
    ELSE LET d == DecodeResult(o, r.body)
         IN IF o = "GetRecords" THEN [value |-> d.value, err |-> d.err]
            ELSE IF d.err # NilErr THEN [value |-> << >>, err |-> d.err]
            ELSE [value |-> Returned(o, d.value), err |-> NilErr]

\* An iteration of Do inside an operation whose request can be built.
ClientAttempt(o) ==
    /\ clientPc = "called"
    /\ urlOK
    /\ DoAttempt(o)

\* getRequest drops the error of http.NewRequest: with an Endpoint that does
\* not parse, req is nil and req.Header.Set dereferences it.
GetRequestPanics ==
    /\ clientPc = "called"
    /\ ~urlOK
    /\ variant = "Do"
    /\ pc = "loop"
    /\ try < MaxTries
    /\ pc' = "panic"
    /\ UNCHANGED << variant, MaxTries, try, lastBody, result, attempts, outcome,
                    uniform, slept, verdict, bodyReader, transmitted >>
    /\ UNCHANGED otherVars

\* The operation returns after Do returned.
OpReturn ==
    /\ clientPc = "called"
    /\ pc = "done"
    /\ clientPc' = "returned"
    /\ opResult' = OpOutcome(op, result)
    /\ UNCHANGED << senderVars, entryMaxTries, op, urlOK, streamVars, lookupVars >>

ClientInit ==
    /\ variant = "Do"
    /\ SenderEntry
    /\ op \in Ops
    /\ urlOK \in BOOLEAN
    /\ clientPc = "called"
    /\ opResult = NoOpResult
    /\ StreamIdle
    /\ LookupIdle

ClientNext ==
    \/ \E o \in ClientOutcomes : ClientAttempt(o)
    \/ GetRequestPanics
    \/ BackoffSleep
    \/ Exhausted
    \/ OpReturn

ClientSpec == ClientInit /\ [][ClientNext]_vars

\* ------------------------------------------------------- StreamRecords
\* Most GetRecords calls one StreamRecords goroutine is followed for.
MaxFetches == 3

\* Most records in one batch.
MaxBatch == 2

\* Largest shard iterator value.
MaxIterator == 2

Iterators == 1..MaxIterator

\* The errors a GetRecords call can return.
FetchErrs ==
    { TransportErr, JsonSyntaxErr, exceededRetriesError("Do"),
      Err("kinesisError", "NotFound", "Could not find something") }

\* What one GetRecords call returns: n records, the next iterator, err.
FetchResults ==
    [n : 0..MaxBatch, next : Iterators, err : FetchErrs \cup {NilErr}]

\* The records of a batch of n, named by their position in the shard.
Batch(n) == [i \in 1..n |-> Len(fetched) + i]

\* Slip: the break after errc <- err is missing.
SendError_NoBreak ==
    /\ sPc = "sendError"
    /\ consumer = "receiving"
    /\ errReceived' = Append(errReceived, sErr)
    /\ sPc' = "fetch"
    /\ UNCHANGED << shardIterator, pending, sErr, fetches, fetched, received, consumer >>
    /\ UNCHANGED << cursorLog, senderVars, entryMaxTries, clientVars, lookupVars >>

\* Slip: only the first record of a batch is sent.
SendRecord_FirstOnly ==
    /\ sPc = "sendRecord"
    /\ consumer = "receiving"
    /\ received' = Append(received, Head(pending))
    /\ pending' = << >>
    /\ sPc' = "fetch"
    /\ UNCHANGED << shardIterator, sErr, fetches, fetched, errReceived, consumer >>
    /\ UNCHANGED << cursorLog, senderVars, entryMaxTries, clientVars, lookupVars >>

\* Slip: c is buffered, so a send completes without a reader.
SendRecord_Buffered ==
    /\ sPc = "sendRecord"
    /\ received' = Append(received, Head(pending))
    /\ pending' = Tail(pending)
    /\ sPc' = (IF Tail(pending) = << >> THEN "fetch" ELSE "sendRecord")
    /\ UNCHANGED << shardIterator, sErr, fetches, fetched, errReceived, consumer >>
    /\ UNCHANGED << cursorLog, senderVars, entryMaxTries, clientVars, lookupVars >>

\* Slip: shardIterator = newiterator is missing.
Fetch_KeepIterator(r) ==
    /\ sPc = "fetch"
    /\ fetches < MaxFetches
    /\ fetches' = fetches + 1
    /\ used' = Append(used, shardIterator)
    /\ IF r.err # NilErr
       THEN /\ sErr' = r.err
            /\ sPc' = "sendError"
            /\ UNCHANGED << shardIterator, pending, fetched, nexts >>
       ELSE /\ nexts' = Append(nexts, r.next)
            /\ pending' = Batch(r.n)
            /\ fetched' = fetched \o Batch(r.n)
            /\ sPc' = (IF r.n = 0 THEN "fetch" ELSE "sendRecord")
            /\ UNCHANGED << sErr, shardIterator >>
    /\ UNCHANGED << received, errReceived, consumer, startIterator >>
    /\ UNCHANGED << senderVars, entryMaxTries, clientVars, lookupVars >>

\* Slip: the next batch is fetched while records of the current one are
\* still to be sent.
Fetch_Prefetch(r) ==
    /\ sPc \in {"fetch", "sendRecord"}
    /\ fetches < MaxFetches
    /\ fetches' = fetches + 1
    /\ used' = Append(used, shardIterator)
    /\ IF r.err # NilErr
       THEN /\ sErr' = r.err
            /\ sPc' = "sendError"
            /\ UNCHANGED << shardIterator, pending, fetched, nexts >>
       ELSE /\ shardIterator' = r.next
            /\ nexts' = Append(nexts, r.next)
            /\ pending' = pending \o Batch(r.n)
            /\ fetched' = fetched \o Batch(r.n)
            /\ sPc' = (IF pending \o Batch(r.n) = << >> THEN "fetch" ELSE "sendRecord")
            /\ UNCHANGED sErr
    /\ UNCHANGED << received, errReceived, consumer, startIterator >>
    /\ UNCHANGED << senderVars, entryMaxTries, clientVars, lookupVars >>

\* records, newiterator, err := s.GetRecords(shardIterator, 0) and the test
\* of err: either the error is kept for errc, or the iterator is advanced
\* and the range loop over the batch is entered.
Fetch(r) ==
    /\ sPc = "fetch"
    /\ fetches < MaxFetches
    /\ fetches' = fetches + 1
    /\ used' = Append(used, shardIterator)
    /\ IF r.err # NilErr
       THEN /\ sErr' = r.err
            /\ sPc' = "sendError"
            /\ UNCHANGED << shardIterator, pending, fetched, nexts >>
       ELSE /\ shardIterator' = r.next
            /\ nexts' = Append(nexts, r.next)
            /\ pending' = Batch(r.n)
            /\ fetched' = fetched \o Batch(r.n)
            /\ sPc' = (IF r.n = 0 THEN "fetch" ELSE "sendRecord")
            /\ UNCHANGED sErr
    /\ UNCHANGED << received, errReceived, consumer, startIterator >>
    /\ UNCHANGED << senderVars, entryMaxTries, clientVars, lookupVars >>

\* c <- r meeting a receive on the unbuffered channel c.
SendRecord ==
    /\ sPc = "sendRecord"
    /\ consumer = "receiving"
    /\ received' = Append(received, Head(pending))
    /\ pending' = Tail(pending)
    /\ sPc' = (IF Tail(pending) = << >> THEN "fetch" ELSE "sendRecord")
    /\ UNCHANGED << shardIterator, sErr, fetches, fetched, errReceived, consumer >>
    /\ UNCHANGED << cursorLog, senderVars, entryMaxTries, clientVars, lookupVars >>

\* errc <- err meeting a receive on errc, then break: the goroutine ends.
SendError ==
    /\ sPc = "sendError"
    /\ consumer = "receiving"
    /\ errReceived' = Append(errReceived, sErr)
    /\ sPc' = "exited"
    /\ UNCHANGED << shardIterator, pending, sErr, fetches, fetched, received, consumer >>
    /\ UNCHANGED << cursorLog, senderVars, entryMaxTries, clientVars, lookupVars >>

\* The caller stops receiving from both channels.
ConsumerStops ==
    /\ consumer = "receiving"
    /\ consumer' = "gone"
    /\ UNCHANGED << sPc, shardIterator, pending, sErr, fetches, fetched, received,
                    errReceived >>
    /\ UNCHANGED << cursorLog, senderVars, entryMaxTries, clientVars, lookupVars >>

\* No sender call is followed.
SenderIdle ==
    /\ variant = "Do"
    /\ MaxTries = MaxTriesBound
    /\ entryMaxTries = MaxTries
    /\ pc = "idle"
    /\ try = 1
    /\ lastBody = NilBody
    /\ result = NoResult
    /\ attempts = 0
    /\ outcome = NoOutcome
    /\ uniform = TRUE
    /\ slept = << >>
    /\ verdict = NoVerdict
    /\ bodyReader = "none"
    /\ transmitted = << >>

\* StreamRecords(shardIterator) has made the channels and started the
\* goroutine.
StreamInit ==
    /\ SenderIdle
    /\ ClientIdle
    /\ sPc = "fetch"
    /\ shardIterator \in Iterators
    /\ pending = << >>
    /\ sErr = NilErr
    /\ fetches = 0
    /\ fetched = << >>
    /\ received = << >>
    /\ errReceived = << >>
    /\ consumer = "receiving"
    /\ startIterator = shardIterator
    /\ used = << >>
    /\ nexts = << >>
    /\ LookupIdle

StreamNext ==
    \/ \E r \in FetchResults : Fetch(r)
    \/ SendRecord
    \/ SendError
    \/ ConsumerStops

StreamSpec == StreamInit /\ [][StreamNext]_vars

\* ----------------------------------------------------- ServiceForRegion
\* Most calls of ServiceForRegion followed.
MaxLookups == 6

usEast1 ==
    [kinesis |-> [Endpoint |-> "https://kinesis.us-east-1.amazonaws.com"],
     dynamodb |-> [Endpoint |-> "https://dynamodb.us-east-1.amazonaws.com"]]

regionsToServices == [r \in {"us-east-1"} |-> usEast1]

noSuchServiceError == Err("AWSError", "GawsNoSuchService", "Could not find this service.")

\* m[k] of a Go map: the zero value when k is not a key (also of a nil map).
MapIndex(m, k, zero) == IF k \in DOMAIN m THEN m[k] ELSE zero

\* Slip: the error is returned only for an unknown region.
ServiceForRegion_RegionOnly(region, serviceName) ==
    LET service ==
          MapIndex(MapIndex(regionsToServices, region, << >>), serviceName,
                   [Endpoint |-> ""])
    IN IF region \notin DOMAIN regionsToServices
       THEN [service |-> service, err |-> noSuchServiceError]
       ELSE [service |-> service, err |-> NilErr]

\* ServiceForRegion(region, serviceName) -> (AWSService, error)
ServiceForRegion(region, serviceName) ==
    LET service ==
          MapIndex(MapIndex(regionsToServices, region, << >>), serviceName,
                   [Endpoint |-> ""])
    IN IF service.Endpoint = ""
       THEN [service |-> service, err |-> noSuchServiceError]
       ELSE [service |-> service, err |-> NilErr]

\* The region arguments tried.
RegionNames == {"us-east-1", "us-west-2", "blahblah", ""}

\* The serviceName arguments tried.
ServiceNames == {"kinesis", "dynamodb", "sqs", "blahblah", ""}

\* One call of ServiceForRegion.
Lookup(region, serviceName) ==
    /\ lookups < MaxLookups
    /\ lookups' = lookups + 1
    /\ svcRegion' = region
    /\ svcName' = serviceName
    /\ svcResult' = ServiceForRegion(region, serviceName)
    /\ UNCHANGED << senderVars, entryMaxTries, clientVars, streamVars >>

LookupInit ==
    /\ SenderIdle
    /\ ClientIdle
    /\ StreamIdle
    /\ LookupIdle

LookupNext == \E region \in RegionNames, serviceName \in ServiceNames :
                  Lookup(region, serviceName)

LookupSpec == LookupInit /\ [][LookupNext]_vars

TypeOK ==
    /\ variant \in Variants
    /\ MaxTries \in 0..MaxTriesBound
    /\ pc \in {"loop", "sleep", "done", "panic"}
    /\ try \in 1..(MaxTriesBound + 1)
    /\ attempts \in 0..MaxTriesBound

\* ------------------------------------------------------- claim vocabulary
\* The retry decision sender v takes for a complete response.
classify(v, status, body) ==
    IF v \in {"SendAWSRequest", ResponseVariant} THEN inlineClassify(status, body)
    ELSE kinesisRetryPredicate(status, body)

PredicateVariants == {"Do", "SendAWSRequestRetry"}

Complete == attempts >= 1 /\ outcome.net = "ok"

Decoded == Unmarshal(outcome.body)

LastDecision == classify(variant, outcome.status, outcome.body)

\* The call returned from the bottom of the function (the loop ran out).
ReturnedByExhaustion ==
    /\ pc = "done"
    /\ attempts = 0 \/ (Complete /\ LastDecision.retry)

\* The call returned from inside the loop on a response it did not retry.
ReturnedOnResponse ==
    /\ pc = "done"
    /\ Complete
    /\ ~LastDecision.retry

\* The error types the sender of this call retries below status 500.
RetryTypes ==
    IF variant \in PredicateVariants
    THEN {"Throttling", "ProvisionedThroughputExceededException"}
    ELSE {"Throttling"}

\* C1: a response with status < 400 received on the first attempt makes the
\* call return that response's body and a nil error, after exactly one
\* attempt and without any sleep.
C1_SuccessFirstAttempt ==
    (attempts = 1 /\ outcome.net = "ok" /\ outcome.status < 400)
        => /\ pc = "done"
           /\ result = [body |-> outcome.body, err |-> NilErr]
           /\ slept = << >>

C1_Witness ==
    /\ variant = "Do"
    /\ pc = "done"
    /\ attempts = 1
    /\ outcome = [net |-> "ok", status |-> 399, body |-> Raw("OK")]
    /\ result = [body |-> Raw("OK"), err |-> NilErr]

\* C2: a first response with status in [400,500) whose body decodes to an
\* error document of a type the sender does not retry ends the call after
\* exactly one attempt, with an error carrying exactly the document's type
\* and message; under the Kinesis predicate that error is not the sentinel.
C2_PermanentErrorOneAttempt ==
    (/\ attempts = 1
     /\ outcome.net = "ok"
     /\ outcome.status >= 400
     /\ outcome.status < 500
     /\ Decoded.err = NilErr
     /\ Decoded.Type \notin RetryTypes)
        => /\ pc = "done"
           /\ slept = << >>
           /\ result.body = outcome.body
           /\ result.err.kind \in DocKinds
           /\ result.err.Type = Decoded.Type
           /\ result.err.Message = Decoded.Message
           /\ variant \in PredicateVariants
                 => result.err # exceededRetriesError(variant)

C2_Witness ==
    /\ variant = "Do"
    /\ pc = "done"
    /\ attempts = 1
    /\ outcome.status = 499
    /\ result.err = Err("kinesisError", "NotFound", "Could not find something")

\* C3 as stated: with status >= 500 repeated on every attempt, whatever the
\* body, the call ends with the sentinel error.
C3_AnyBodyEndsInSentinel ==
    (/\ variant \in PredicateVariants
     /\ pc = "done"
     /\ Complete
     /\ uniform
     /\ outcome.status >= 500)
        => result.err = exceededRetriesError(variant)

\* C3 amended: with status >= 500 and a body that parses as an error
\* document, repeated on every attempt, the call uses every attempt of its
\* budget and ends with the sentinel error, never with the decoded error.
C3_ParsedServerErrorEndsInSentinel ==
    (/\ variant \in PredicateVariants
     /\ Complete
     /\ uniform
     /\ outcome.status >= 500
     /\ Decoded.err = NilErr)
        => /\ pc \in {"sleep", "loop", "done"}
           /\ pc = "done"
                 => /\ result.err = exceededRetriesError(variant)
                    /\ result.err # LastDecision.err
                    /\ attempts = MaxTries - 1

C3_Witness ==
    /\ variant = "Do"
    /\ pc = "done"
    /\ uniform
    /\ attempts = 4
    /\ outcome = [net |-> "ok", status |-> 500,
                  body |-> Doc("NotFound", "Could not find something")]
    /\ result.err = exceededRetriesError("Do")

\* C4: a status-400 response of type "Throttling" (or, under the Kinesis
\* predicate, "ProvisionedThroughputExceededException") repeated on every
\* attempt is retried until the budget is used up, and the call then
\* returns the sentinel error, not the throttling error.
C4_ThrottleEndsInSentinel ==
    (/\ Complete
     /\ uniform
     /\ outcome.status = 400
     /\ Decoded.err = NilErr
     /\ Decoded.Type \in RetryTypes)
        => /\ pc \in {"sleep", "loop", "done"}
           /\ pc \in {"sleep", "loop"} => result = NoResult
           /\ pc = "done"
                 => /\ result.err = exceededRetriesError(variant)
                    /\ result.err.Type # Decoded.Type
                    /\ attempts = MaxTries - 1

C4_Witness ==
    /\ variant = "SendAWSRequestRetry"
    /\ pc = "done"
    /\ uniform
    /\ attempts = MaxTries - 1
    /\ attempts >= 3
    /\ outcome = [net |-> "ok", status |-> 400,
                  body |-> Doc("ProvisionedThroughputExceededException", "bar")]
    /\ result.err = exceededRetriesError(variant)

\* C5: a response with status >= 400 whose body does not parse as the error
\* document ends the call at once with a non-nil parse error: no sleep and
\* no attempt follows it, so received first it costs exactly one attempt.
C5_MalformedBodyNotRetried ==
    (/\ Complete
     /\ outcome.status >= 400
     /\ Decoded.err # NilErr)
        => /\ pc = "done"
           /\ result.err = Decoded.err
           /\ result.err.kind = "json"
           /\ result.err # NilErr
           /\ result.body = outcome.body
           /\ Len(slept) = attempts - 1

C5_Witness ==
    /\ pc = "done"
    /\ attempts = 1
    /\ outcome = [net |-> "ok", status |-> 499, body |-> Raw("I am not JSON!")]
    /\ result.err = JsonSyntaxErr

\* C6: a transport error on any attempt makes every sender return an empty
\* body and that error as a value, with no further attempt.
C6_TransportErrorReturned ==
    (attempts >= 1 /\ outcome.net = "transport")
        => /\ pc = "done"
           /\ result = [body |-> EmptyBody, err |-> TransportErr]

\* C7 as stated: the number of attempts a call has made when it returns does
\* not exceed MaxTries - 1.
C7_AttemptsAtMostMaxTriesMinusOne == pc = "done" => attempts <= MaxTries - 1

\* C7 amended: attempts are numbered 1..MaxTries-1, so their number never
\* exceeds MaxTries - 1 when MaxTries >= 1 and is 0 when MaxTries <= 1; with
\* MaxTries = 5 at most 4 attempts are made.
C7_AttemptsWithinBudget ==
    /\ attempts <= (IF MaxTries >= 1 THEN MaxTries - 1 ELSE 0)
    /\ attempts >= 1 => attempts \in 1..(MaxTries - 1)
    /\ pc = "sleep" => attempts = try
    /\ MaxTries = 5 => attempts <= 4

C7_Witness ==
    /\ MaxTries = 5
    /\ attempts = 4
    /\ pc = "done"

\* C8: when every attempt fails with a retryable response, the number of
\* attempts made before giving up equals MaxTries.
C8_ExhaustionTakesMaxTriesAttempts ==
    (ReturnedByExhaustion /\ attempts >= 1) => attempts = MaxTries

\* C9: the error returned for a decoded error document on a non-retried
\* response is distinguishable from the sentinel, including by Error() text.
C9_SentinelDistinctFromServiceError ==
    (ReturnedOnResponse /\ result.err.kind \in DocKinds)
        => /\ result.err # exceededRetriesError(variant)
           /\ ErrorText(result.err) # ErrorText(exceededRetriesError(variant))

\* C10 as stated: on exhaustion the body returned with the sentinel is the
\* final attempt's body, never an earlier one and never empty.
C10_ExhaustionReturnsLastBody ==
    ReturnedByExhaustion
        => /\ result.err = exceededRetriesError(variant)
           /\ Complete
           /\ result.body = outcome.body
           /\ result.body \notin {NilBody, EmptyBody}

\* C10 amended: on exhaustion after at least one attempt (MaxTries >= 2)
\* the body returned with the sentinel is the final attempt's body, never an
\* earlier one and never empty; with MaxTries <= 1 no attempt is made and
\* the body returned with the sentinel is nil.
C10_ExhaustionReturnsLastBodyIfAny ==
    ReturnedByExhaustion
        => /\ result.err = exceededRetriesError(variant)
           /\ attempts >= 1
                 => /\ MaxTries >= 2
                    /\ result.body = outcome.body
                    /\ result.body \notin {NilBody, EmptyBody}
           /\ attempts = 0
                 => /\ MaxTries <= 1
                    /\ result.body = NilBody

C10_Witness ==
    /\ ReturnedByExhaustion
    /\ attempts = 3
    /\ ~uniform
    /\ result.body = Doc("Throttling", "You have been throttled")
    /\ outcome.status = 400

\* C11: the *http.Response returned by the sender of common.go is the last
\* response received: status 400 when retries are exhausted against a server
\* that always answers 400 Throttling, and the response's own status (404)
\* when a 4xx is returned without retry.
C11_ReturnedResponseIsLastReceived ==
    /\ (/\ ReturnedByExhaustion
        /\ Complete
        /\ uniform
        /\ outcome.status = 400
        /\ Decoded.Type = "Throttling")
           => result.resp.status = 400
    /\ (/\ ReturnedOnResponse
        /\ outcome.status >= 400
        /\ outcome.status < 500)
           => result.resp.status = outcome.status

\* The half of C11 the code satisfies: a response returned without retry is
\* returned as received.
C11_NonRetriedResponseReturned ==
    ReturnedOnResponse => result.resp.status = outcome.status

\* C12: the sleep taken after retryable attempt k lasts 100 ms * 2^k, so
\* the sleeps of one call are 200, 400, 800, ... ms, each twice the previous.
C12_SleepDoublesFrom200 ==
    /\ \A i \in 1..Len(slept) : slept[i] = 100 * 2^i
    /\ \A i \in 2..Len(slept) : slept[i] = 2 * slept[i - 1]
    /\ Len(slept) >= 1 => slept[1] = 200
    /\ pc = "loop" => Len(slept) = try - 1

C12_Witness ==
    /\ pc = "loop"
    /\ try = 4
    /\ slept = << 200, 400, 800 >>

\* The attempts an undisturbed call entered with this MaxTries may make.
EntryBudget == IF entryMaxTries >= 1 THEN entryMaxTries - 1 ELSE 0

\* C13: the attempts a call makes and what it returns do not depend on
\* anything else running in the process: a call that returns has made no
\* more attempts than the ceiling it was entered with allows, and one that
\* runs out of attempts has made exactly that many.
C13_CallUnaffectedByOtherActivity ==
    pc = "done"
        => /\ attempts <= EntryBudget
           /\ ReturnedByExhaustion => attempts = EntryBudget

\* The decision table of the claim, for a body whose decoding gave d.
PredicateReference(status, d) ==
    IF status < 400 THEN [retry |-> FALSE, err |-> NilErr]
    ELSE IF d.err # NilErr THEN [retry |-> FALSE, err |-> d.err]
    ELSE [retry |-> (status >= 500
                      \/ d.Type \in {"Throttling",
                                      "ProvisionedThroughputExceededException"}),
          err |-> Err("kinesisError", d.Type, d.Message)]

\* C14: for every status and body kinesisRetryPredicate returns what the
\* reference decision table gives.
C14_PredicateEqualsReference ==
    (variant \in PredicateVariants /\ Complete)
        => verdict = PredicateReference(outcome.status, Decoded)

C14_Witness ==
    /\ variant = "Do"
    /\ Complete
    /\ outcome.status = 499
    /\ verdict = [retry |-> TRUE,
                  err |-> Err("kinesisError",
                              "ProvisionedThroughputExceededException", "bar")]

\* C15: in the predicate-less SendAWSRequest a response with status 500 and
\* a well-formed error document, and a response of type "Throttling", never
\* causes an immediate return.
C15_ServerErrorAndThrottlingRetried ==
    (/\ variant = "SendAWSRequest"
     /\ Complete
     /\ outcome.status >= 400
     /\ outcome.body.k = "object"
     /\ Decoded.err = NilErr
     /\ outcome.status = 500 \/ Decoded.Type = "Throttling")
        => ~ReturnedOnResponse

\* C16: whenever Do returns a non-nil error to a Kinesis client operation,
\* the operation returns exactly that error value.
C16_OperationReturnsLoopError ==
    (clientPc = "returned" /\ result.err # NilErr) => opResult.err = result.err

C16_Witness ==
    /\ clientPc = "returned"
    /\ op = "GetShardIterator"
    /\ attempts = 1
    /\ opResult.err = Err("kinesisError", "NotFound", "Could not find something")

\* C20: every failure inside an operation or inside Do ends the operation
\* with a non-nil error returned to the caller.
C20_NoFailureSwallowed ==
    /\ pc # "panic"
    /\ (/\ clientPc = "returned"
        /\ \/ result.err # NilErr
           \/ op \notin ErrOnlyOps /\ DecodeResult(op, result.body).err # NilErr)
           => opResult.err # NilErr

\* C17: every record of every batch fetched before the first failing fetch
\* is delivered on the data channel exactly once, in fetch order and in
\* in-batch order, and all of them before the error is delivered.
C17_RecordsDeliveredInOrderBeforeError ==
    /\ Len(received) <= Len(fetched)
    /\ received = SubSeq(fetched, 1, Len(received))
    /\ fetched = received \o pending
    /\ sPc = "sendError" => received = fetched
    /\ errReceived # << >> => received = fetched

C17_Witness ==
    /\ fetches = 2
    /\ fetched = << 1 >>
    /\ received = << 1 >>
    /\ errReceived = << TransportErr >>

\* C18: a failing fetch makes the goroutine send that error once on the
\* error channel and stop: after the send there is no further fetch, record
\* or error.
C18_ErrorSentOnceThenStop ==
    /\ [](/\ Len(errReceived) <= 1
          /\ errReceived # << >> => (sPc = "exited" /\ errReceived = << sErr >>)
          /\ sPc = "exited" => errReceived # << >>)
    /\ [][errReceived # << >>
             => /\ fetches' = fetches
                /\ received' = received
                /\ errReceived' = errReceived
                /\ sPc' = sPc]_vars

C18_Witness ==
    /\ sPc = "exited"
    /\ fetches = 2
    /\ received = << 1, 2 >>
    /\ errReceived = << Err("kinesisError", "NotFound", "Could not find something") >>

\* C19: once the reader has stopped receiving while the goroutine has a
\* record or the error to send, the goroutine stays at that send: it never
\* ends and fetches nothing more.
C19_BlockedForeverWithoutReader ==
    [][(consumer = "gone" /\ sPc \in {"sendRecord", "sendError"})
          => /\ sPc' = sPc
             /\ consumer' = "gone"
             /\ fetches' = fetches
             /\ pending' = pending
             /\ received' = received
             /\ errReceived' = errReceived]_vars

C19_Witness ==
    /\ consumer = "gone"
    /\ sPc = "sendRecord"
    /\ Len(pending) = 2
    /\ received = << 1 >>

\* C21: whenever ListStreams, GetRecords, GetShardIterator or Describe
\* returns a non-nil error, the result returned with it is the empty value.
C21_ErrorComesWithEmptyResult ==
    (/\ clientPc = "returned"
     /\ op \in {"ListStreams", "GetRecords", "GetShardIterator", "Describe"}
     /\ opResult.err # NilErr)
        => opResult.value = << >>

\* The part of C21 the code satisfies: the three operations that test the
\* decoding's err return the empty value with every error, and GetRecords
\* does with every error of Do.
C21_EmptyResultWhereErrIsTested ==
    (/\ clientPc = "returned"
     /\ opResult.err # NilErr
     /\ \/ op \in {"ListStreams", "GetShardIterator", "Describe"}
        \/ op = "GetRecords" /\ result.err # NilErr)
        => opResult.value = << >>

\* C22: ServiceForRegion returns the configured service and a nil error
\* exactly when the region is known and the service name is known in it;
\* otherwise it returns the GawsNoSuchService error and a service with an
\* empty endpoint.
C22_ServiceFoundIffKnown ==
    lookups >= 1 =>
        LET known == /\ svcRegion = "us-east-1"
                     /\ svcName \in {"kinesis", "dynamodb"}
        IN /\ known <=> svcResult.err = NilErr
           /\ known => svcResult.service.Endpoint
                           = "https://" \o svcName \o "." \o svcRegion \o ".amazonaws.com"
           /\ ~known => /\ svcResult.err.Type = "GawsNoSuchService"
                        /\ svcResult.err # NilErr
                        /\ svcResult.service.Endpoint = ""

C22_Witness ==
    /\ lookups >= 2
    /\ svcRegion = "us-east-1"
    /\ svcName = "blahblah"
    /\ svcResult.err = noSuchServiceError

\* C23: when attempt k receives a response the predicate does not retry,
\* after k-1 retried ones, the call returns at once with attempt k's body
\* and the predicate's error for attempt k (nil when its status is < 400),
\* whatever the earlier attempts received, and makes no attempt after k.
C23_FirstNonRetriedResponseDecides ==
    /\ [](ReturnedOnResponse
            => /\ result = [body |-> outcome.body, err |-> LastDecision.err]
               /\ outcome.status < 400 => result.err = NilErr
               /\ attempts = try
               /\ attempts <= MaxTries - 1
               /\ Len(slept) = attempts - 1)
    /\ [][pc = "done" => (attempts' = attempts /\ result' = result /\ pc' = "done")]_vars

C23_Witness ==
    /\ variant \in PredicateVariants
    /\ ReturnedOnResponse
    /\ attempts = 3
    /\ lastBody = Doc("Throttling", "You have been throttled")
    /\ outcome = [net |-> "ok", status |-> 200, body |-> Raw("OK")]
    /\ result = [body |-> Raw("OK"), err |-> NilErr]

\* C24: every backoff sleep is followed by another attempt, so a call that
\* has returned after n attempts has slept exactly n-1 times; it never
\* sleeps after its final attempt.
C24_SleepsOnlyBetweenAttempts ==
    (variant = "Do" /\ pc = "done" /\ attempts >= 1) => Len(slept) = attempts - 1

\* C25: every attempt of a call transmits the complete request, with the
\* same body bytes as the first attempt, both in Do and in SendAWSRequest
\* given a request built from a bytes reader; a retry never sends a
\* consumed body.
C25_EveryAttemptSendsCompleteBody ==
    (variant \in PredicateVariants /\ bodyReader = "bytes")
        => \A i \in 1..Len(transmitted) : transmitted[i] = "complete"

\* The part of C25 the code satisfies: every attempt of Do, and the first
\* attempt of every sender, transmits the complete body.
C25_DoSendsCompleteBody ==
    /\ Len(transmitted) = attempts
    /\ attempts >= 1 => transmitted[1] = "complete"
    /\ variant = "Do" => \A i \in 1..Len(transmitted) : transmitted[i] = "complete"

\* C26: within one call the attempts are strictly sequential: an attempt is
\* started only from the loop test, and attempt k+1 only after attempt k's
\* response was read and classified as retryable, its body kept, and the
\* backoff sleep after it has finished.
C26_AttemptsStrictlySequential ==
    [][attempts' # attempts
          => /\ attempts' = attempts + 1
             /\ pc = "loop"
             /\ attempts >= 1
                   => /\ outcome.net = "ok"
                      /\ verdict = LastDecision
                      /\ verdict.retry
                      /\ lastBody = outcome.body
                      /\ Len(slept) = attempts
                      /\ try = attempts + 1]_vars

C26_Witness ==
    /\ variant = "Do"
    /\ attempts = 3
    /\ slept = << 200, 400 >>
    /\ pc = "sleep"

\* C27: the first fetch of StreamRecords uses the caller's iterator, every
\* later fetch uses the NextShardIterator the fetch before it returned, and
\* the cursor is advanced once per successful batch and not by a failing
\* fetch.
C27_CursorFollowsNextShardIterator ==
    /\ Len(used) = fetches
    /\ fetches >= 1 => used[1] = startIterator
    /\ \A i \in 2..Len(used) : used[i] = nexts[i - 1]
    /\ Len(nexts) = (IF sPc \in {"sendError", "exited"} THEN fetches - 1 ELSE fetches)
    /\ shardIterator = (IF nexts = << >> THEN startIterator ELSE nexts[Len(nexts)])

C27_Witness ==
    /\ startIterator = 1
    /\ used = << 1, 2, 1 >>
    /\ nexts = << 2, 1 >>
    /\ sPc = "sendError"
    /\ shardIterator = 1

\* C28: the producer issues a fetch only when every record fetched so far
\* has been received, so at most one batch is ever undelivered.
C28_FetchWaitsForDelivery ==
    /\ [](/\ Len(fetched) - Len(received) <= MaxBatch
          /\ Len(fetched) - Len(received) = Len(pending))
    /\ [][fetches' # fetches => (pending = << >> /\ received = fetched)]_vars

C28_Witness ==
    /\ fetches = 2
    /\ fetched = << 1, 2, 3, 4 >>
    /\ received = << 1, 2, 3 >>
    /\ sPc = "sendRecord"

\* C29: for every MaxTries and every sequence of server responses one call
\* ends after a bounded number of attempts: the attempts never exceed the
\* ceiling, the call always stops, and when every attempt obtains a
\* response it stops by returning a body and an error value.
C29_CallTerminates ==
    /\ [](attempts <= (IF MaxTries >= 1 THEN MaxTries - 1 ELSE 0))
    /\ [](try <= (IF MaxTries >= 1 THEN MaxTries ELSE 1))
    /\ <>(pc \in {"done", "panic"})
    /\ ([](outcome.net # "transport") => <>(pc = "done"))

C29_Witness ==
    /\ variant = "SendAWSRequestRetry"
    /\ MaxTries = 5
    /\ pc = "done"
    /\ attempts = 4
    /\ ~uniform
    /\ result.err = exceededRetriesError(variant)

\* C30: with MaxTries <= 1 the call makes no network attempt and takes no
\* sleep, and it returns a nil body together with the sentinel error.
C30_NoAttemptWhenMaxTriesAtMostOne ==
    MaxTries <= 1
        => /\ attempts = 0
           /\ transmitted = << >>
           /\ slept = << >>
           /\ pc \in {"loop", "done"}
           /\ pc = "done"
                 => result = [body |-> NilBody, err |-> exceededRetriesError(variant)]

C30_Witness ==
    /\ variant = "Do"
    /\ MaxTries = 1
    /\ pc = "done"
    /\ attempts = 0
    /\ result = [body |-> NilBody, err |-> exceededRetriesError("Do")]

====
